---- MODULE Spec2Model ----
(***************************************************************************)
(* Model of src/main.py: the three request handlers of the transliteration *)
(* and NER API, the external completion oracle they call, and the reply    *)
(* parsing of the /ner handler.                                            *)
(*                                                                         *)
(* Strings are sequences of tokens.  Each token stands for one fixed piece *)
(* of text, so concatenation, strip(), json.loads() and re.search() are    *)
(* computed on the token sequence as the code computes them on characters. *)
(***************************************************************************)
EXTENDS Integers, Sequences, FiniteSets, TLC

\* ---------------------------------------------------------------- bounds
MaxLen == 6        \* longest oracle reply to an NER prompt, in tokens
MaxTextReplyLen == 2    \* longest oracle reply to a transliteration prompt, in tokens
MaxTextLen == 1    \* longest form text, in tokens
MaxParas == 1      \* most paragraphs in an uploaded document

\* ---------------------------------------------------------------- tokens
WS == "\n"                          \* a whitespace character
FENCE == "<fence>"                  \* three backticks in a row
TAG == "json"                       \* the literal word json
OBJ == "{'John': 'Jon'}"            \* the text of a JSON object
ARR == "['John']"                   \* the text of a JSON array (valid JSON, not an object)
TXT == "I cannot process this."     \* prose, not JSON

ReplyTokens == {WS, FENCE, TAG, OBJ, ARR, TXT}
TextTokens == {WS, TXT}

SeqsUpTo(S, n) == UNION {[1..k -> S] : k \in 0..n}

\* ---------------------------------------------------------- configuration
INPUT_LANG == "English"
OUTPUT_LANG == "Assamese"
DOCX == "application/vnd.openxmlformats-officedocument.wordprocessingml.document"
ContentTypes == {DOCX, "text/plain"}

\* names bound at module level, and the locals of transliterate_file at the
\* point where it builds its prompt
GlobalNames == {"app", "GEMINI_API_KEY", "INPUT_LANG", "OUTPUT_LANG", "LLM_MODEL", "model",
                "TransliterationResponse", "NERResponse", "ErrorResponse", "WelcomeResponse",
                "welcome", "transliterate_text", "transliterate_file",
                "extract_and_transliterate_ner"}
FileLocals == {"file", "contents", "doc", "input_text"}

\* ------------------------------------------------------------- exceptions
NoExc == [type |-> "none", status_code |-> 0, detail |-> <<>>]
HTTPException(code, detail) == [type |-> "HTTPException", status_code |-> code, detail |-> detail]
OtherException(type, msg) == [type |-> type, status_code |-> 0, detail |-> <<msg>>]

\* str(e): an HTTPException prints as "<status_code>: <detail>" (its __str__ in
\* current Starlette releases), any other exception as its message
StatusText(code) == IF code = 400 THEN "400" ELSE "500"
Str(e) == IF e.type = "HTTPException"
          THEN <<StatusText(e.status_code), ": ">> \o e.detail
          ELSE e.detail

\* -------------------------------------------------------------- responses
NoValue == [type |-> "none", items |-> <<>>]
NoResponse == [kind |-> "none", status |-> 0, original_text |-> <<>>,
               transliterated_text |-> <<>>, entities |-> NoValue, error |-> <<>>]
TransliterationResponse(orig, translit) ==
    [kind |-> "TransliterationResponse", status |-> 200, original_text |-> orig,
     transliterated_text |-> translit, entities |-> NoValue, error |-> <<>>]
ErrorResponse(msg) ==
    [kind |-> "ErrorResponse", status |-> 200, original_text |-> <<>>,
     transliterated_text |-> <<>>, entities |-> NoValue, error |-> msg]
Propagated(e) ==
    [kind |-> "propagated", status |-> IF e.type = "HTTPException" THEN e.status_code ELSE 500,
     original_text |-> <<>>, transliterated_text |-> <<>>, entities |-> NoValue,
     error |-> e.detail]

\* the result of evaluating a handler body: a returned value or a raised exception
Returned(r) == [raised |-> FALSE, exc |-> NoExc, value |-> r]
Raised(e) == [raised |-> TRUE, exc |-> e, value |-> NoResponse]

\* variant: the blanket except lets an HTTPException through to the framework
Catch_reraiseHTTP(out) ==
    IF out.raised
    THEN IF out.exc.type = "HTTPException" THEN Propagated(out.exc)
         ELSE ErrorResponse(Str(out.exc))
    ELSE out.value

\* `except Exception as e: return ErrorResponse(error=str(e))`
Catch(out) == IF out.raised THEN ErrorResponse(Str(out.exc)) ELSE out.value

\* ---------------------------------------------------------- pure functions
RECURSIVE LStrip(_)
LStrip(s) == IF s # <<>> /\ Head(s) = WS THEN LStrip(Tail(s)) ELSE s

RECURSIVE RStrip(_)
RStrip(s) == IF s # <<>> /\ s[Len(s)] = WS THEN RStrip(SubSeq(s, 1, Len(s) - 1)) ELSE s

\* str.strip()
Strip(s) == RStrip(LStrip(s))

\* "\n".join(paragraph texts)
RECURSIVE JoinNL(_)
JoinNL(ps) == IF ps = <<>> THEN <<>>
              ELSE IF Len(ps) = 1 THEN ps[1]
              ELSE ps[1] \o <<WS>> \o JoinNL(Tail(ps))

\* json.loads(s): whitespace around the single JSON value is accepted, anything
\* else raises JSONDecodeError
JsonValue(tok) == IF tok = OBJ THEN [type |-> "dict", items |-> <<"John", "Jon">>]
                  ELSE [type |-> "list", items |-> <<"John">>]
JsonLoads(s) == LET t == Strip(s)
                IN IF Len(t) = 1 /\ t[1] \in {OBJ, ARR}
                   THEN [ok |-> TRUE, value |-> JsonValue(t[1])]
                   ELSE [ok |-> FALSE, value |-> NoValue]

\* index of the first FENCE at or after position i, 0 if there is none
RECURSIVE NextFence(_, _)
NextFence(s, i) == IF i > Len(s) THEN 0
                   ELSE IF s[i] = FENCE THEN i
                   ELSE NextFence(s, i + 1)

\* index of the last FENCE at or before position i, 0 if there is none
RECURSIVE PrevFence(_, _)
PrevFence(s, i) == IF i < 1 THEN 0
                   ELSE IF s[i] = FENCE THEN i
                   ELSE PrevFence(s, i - 1)

\* variant: the pattern without the optional tag
ReSearch_noTag(s) ==
    LET open == NextFence(s, 1)
        close == IF open = 0 THEN 0 ELSE NextFence(s, open + 1)
    IN IF open = 0 \/ close = 0
       THEN [found |-> FALSE, group |-> <<>>]
       ELSE [found |-> TRUE, group |-> SubSeq(s, open + 1, close - 1)]

\* variant: the last fenced block is taken instead of the first
ReSearch_lastBlock(s) ==
    LET close == PrevFence(s, Len(s))
        open == IF close = 0 THEN 0 ELSE PrevFence(s, close - 1)
        start == IF open > 0 /\ s[open + 1] = TAG THEN open + 2 ELSE open + 1
    IN IF open = 0 \/ close = 0
       THEN [found |-> FALSE, group |-> <<>>]
       ELSE [found |-> TRUE, group |-> SubSeq(s, start, close - 1)]

\* re.search(FENCE (?:json)? (.*?) FENCE, s, re.DOTALL): the leftmost match, the
\* optional tag taken when present, the group as short as possible
ReSearch(s) ==
    LET open == NextFence(s, 1)
        start == IF open > 0 /\ open < Len(s) /\ s[open + 1] = TAG THEN open + 2 ELSE open + 1
        close == IF open = 0 THEN 0 ELSE NextFence(s, start)
    IN IF open = 0 \/ close = 0
       THEN [found |-> FALSE, group |-> <<>>]
       ELSE [found |-> TRUE, group |-> SubSeq(s, start, close - 1)]

\* NERResponse(entities=...): the field is declared dict, so pydantic rejects a
\* parsed value that is not a mapping
NERResponse(entities) ==
    IF entities.type = "dict"
    THEN Returned([kind |-> "NERResponse", status |-> 200, original_text |-> <<>>,
                   transliterated_text |-> <<>>, entities |-> entities, error |-> <<>>])
    ELSE Raised(OtherException("ValidationError", "1 validation error for NERResponse"))

CouldNotExtract(ner_text) ==
    HTTPException(400, <<"Could not extract json for NER entities : ">> \o ner_text)

\* variant: the direct parse is skipped and only a fenced block is accepted
NerBody_fenceOnly(reply_text) ==
    LET ner_text == Strip(reply_text)
        match == ReSearch(ner_text)
        inner == JsonLoads(Strip(match.group))
    IN IF match.found /\ inner.ok THEN NERResponse(inner.value)
       ELSE Raised(CouldNotExtract(ner_text))

\* the reply parsing of the /ner handler, from the oracle's reply to the
\* handler body's outcome
NerBody(reply_text) ==
    LET ner_text == Strip(reply_text)
        direct == JsonLoads(ner_text)
        match == ReSearch(ner_text)
        inner == JsonLoads(Strip(match.group))
    IN IF direct.ok THEN NERResponse(direct.value)
       ELSE IF match.found
            THEN IF inner.ok THEN NERResponse(inner.value)
                 ELSE Raised(CouldNotExtract(ner_text))
            ELSE Raised(CouldNotExtract(ner_text))

\* variant: the submitted text is trimmed like the reply
TextBody_stripped(text, reply_text) ==
    Returned(TransliterationResponse(Strip(text), Strip(reply_text)))

\* the tail of transliterate_text once the oracle has replied
TextBody(text, reply_text) == Returned(TransliterationResponse(text, Strip(reply_text)))

\* the tail of transliterate_file once the oracle has replied
FileBody(input_text, reply_text) == Returned(TransliterationResponse(input_text, Strip(reply_text)))

TransliteratePrompt(text) ==
    [template |-> "transliterate", src |-> INPUT_LANG, dst |-> OUTPUT_LANG, text |-> text]
NerPrompt(input_text) ==
    [template |-> "ner", src |-> "", dst |-> OUTPUT_LANG, text |-> input_text]
NoPrompt == [template |-> "none", src |-> "", dst |-> "", text |-> <<>>]

\* ------------------------------------------------------------------ inputs
Texts == SeqsUpTo(TextTokens, MaxTextLen)
Replies == SeqsUpTo(ReplyTokens, MaxLen)
TextReplies == SeqsUpTo(ReplyTokens, MaxTextReplyLen)
Paragraphs == {<<TXT>>}
\* an upload body: either not a readable document, or its paragraphs
Docs == {[ok |-> FALSE, paragraphs |-> <<>>]}
        \cup {[ok |-> TRUE, paragraphs |-> ps] : ps \in SeqsUpTo(Paragraphs, MaxParas)}
OracleErrors == {"503 Service Unavailable", "response.text: no valid Part"}

\* ------------------------------------------------------------------- state
VARIABLES pc,            \* "idle", "oracle" (inside model.generate_content), "done"
          endpoint,      \* which handler serves the request
          text,          \* form field of /transliterate/text
          content_type,  \* file.content_type of the upload
          doc,           \* the upload body
          input_text,    \* text extracted from the upload
          prompt,        \* prompt handed to the oracle
          oracleCalls,   \* calls of model.generate_content in this request
          bodyReads,     \* calls of file.read() in this request
          reply,         \* what the oracle did
          exc,           \* exception raised in the handler body, if any
          response       \* what the request ended with

vars == <<pc, endpoint, text, content_type, doc, input_text, prompt, oracleCalls,
          bodyReads, reply, exc, response>>

NoReply == [state |-> "none", text |-> <<>>]
NoDoc == [ok |-> FALSE, paragraphs |-> <<>>]

Init == /\ pc = "idle"
        /\ endpoint = "none"
        /\ text = <<>>
        /\ content_type = ""
        /\ doc = NoDoc
        /\ input_text = <<>>
        /\ prompt = NoPrompt
        /\ oracleCalls = 0
        /\ bodyReads = 0
        /\ reply = NoReply
        /\ exc = NoExc
        /\ response = NoResponse

\* the handler body ended (returned or raised) and the blanket except ran
Finish(out) == /\ pc' = "done"
               /\ exc' = out.exc
               /\ response' = Catch(out)

\* --------------------------------------------------------------- handlers
\* POST /transliterate/text up to the oracle call
transliterate_text(t) ==
    /\ pc = "idle"
    /\ endpoint' = "text"
    /\ text' = t
    /\ IF t = <<>>
       THEN /\ Finish(Raised(HTTPException(400, <<"Please provide text input.">>)))
            /\ UNCHANGED <<prompt, oracleCalls>>
       ELSE /\ prompt' = TransliteratePrompt(t)
            /\ oracleCalls' = oracleCalls + 1
            /\ pc' = "oracle"
            /\ UNCHANGED <<exc, response>>
    /\ UNCHANGED <<content_type, doc, input_text, bodyReads, reply>>

\* POST /transliterate/file: the prompt's f-string names `text`, which is bound
\* neither in the function nor at module level
transliterate_file(ct, d) ==
    /\ pc = "idle"
    /\ endpoint' = "file"
    /\ content_type' = ct
    /\ doc' = d
    /\ IF ct # DOCX
       THEN /\ Finish(Raised(HTTPException(400, <<"Invalid file type. Please upload a .docx file.">>)))
            /\ UNCHANGED <<input_text, prompt, oracleCalls, bodyReads>>
       ELSE /\ bodyReads' = bodyReads + 1
            /\ IF ~d.ok
               THEN /\ Finish(Raised(OtherException("BadZipFile", "File is not a zip file")))
                    /\ UNCHANGED <<input_text, prompt, oracleCalls>>
               ELSE /\ input_text' = JoinNL(d.paragraphs)
                    /\ IF "text" \notin (FileLocals \cup GlobalNames)
                       THEN /\ Finish(Raised(OtherException("NameError", "name 'text' is not defined")))
                            /\ UNCHANGED <<prompt, oracleCalls>>
                       ELSE /\ prompt' = TransliteratePrompt(<<>>)
                            /\ oracleCalls' = oracleCalls + 1
                            /\ pc' = "oracle"
                            /\ UNCHANGED <<exc, response>>
    /\ UNCHANGED <<text, reply>>

\* POST /ner up to the oracle call
extract_and_transliterate_ner(ct, d) ==
    /\ pc = "idle"
    /\ endpoint' = "ner"
    /\ content_type' = ct
    /\ doc' = d
    /\ IF ct # DOCX
       THEN /\ Finish(Raised(HTTPException(400, <<"Invalid file type. Please upload a .docx file.">>)))
            /\ UNCHANGED <<input_text, prompt, oracleCalls, bodyReads>>
       ELSE /\ bodyReads' = bodyReads + 1
            /\ IF ~d.ok
               THEN /\ Finish(Raised(OtherException("BadZipFile", "File is not a zip file")))
                    /\ UNCHANGED <<input_text, prompt, oracleCalls>>
               ELSE /\ input_text' = JoinNL(d.paragraphs)
                    /\ prompt' = NerPrompt(JoinNL(d.paragraphs))
                    /\ oracleCalls' = oracleCalls + 1
                    /\ pc' = "oracle"
                    /\ UNCHANGED <<exc, response>>
    /\ UNCHANGED <<text, reply>>

\* model.generate_content(prompt) returns and response.text is r: the rest of
\* the handler runs
generate_content_returns(r) ==
    /\ pc = "oracle"
    /\ reply' = [state |-> "text", text |-> r]
    /\ Finish(CASE endpoint = "text" -> TextBody(text, r)
                [] endpoint = "file" -> FileBody(input_text, r)
                [] OTHER -> NerBody(r))
    /\ UNCHANGED <<endpoint, text, content_type, doc, input_text, prompt, oracleCalls, bodyReads>>

\* variant: a failed oracle call is issued again
generate_content_raises_retry(m) ==
    /\ pc = "oracle"
    /\ oracleCalls < 3
    /\ oracleCalls' = oracleCalls + 1
    /\ reply' = [state |-> "failed", text |-> <<m>>]
    /\ UNCHANGED <<pc, exc, response, endpoint, text, content_type, doc, input_text, prompt, bodyReads>>

\* model.generate_content(prompt) or response.text raises
generate_content_raises(m) ==
    /\ pc = "oracle"
    /\ reply' = [state |-> "failed", text |-> <<m>>]
    /\ Finish(Raised(OtherException("OracleError", m)))
    /\ UNCHANGED <<endpoint, text, content_type, doc, input_text, prompt, oracleCalls, bodyReads>>

Next == \/ pc = "idle" /\ \E t \in Texts : transliterate_text(t)
        \/ pc = "idle" /\ \E ct \in ContentTypes, d \in Docs : transliterate_file(ct, d)
        \/ pc = "idle" /\ \E ct \in ContentTypes, d \in Docs : extract_and_transliterate_ner(ct, d)
        \/ pc = "oracle" /\ \E r \in (IF endpoint = "ner" THEN Replies ELSE TextReplies) :
                                generate_content_returns(r)
        \/ pc = "oracle" /\ \E m \in OracleErrors : generate_content_raises(m)

Spec == Init /\ [][Next]_vars

TypeOK == /\ pc \in {"idle", "oracle", "done"}
          /\ endpoint \in {"none", "text", "file", "ner"}
          /\ oracleCalls \in Nat
          /\ bodyReads \in 0..1

\* ------------------------------------------------------------------ claims
\* helpers of the claims, stated on the text alone
Done(e) == pc = "done" /\ endpoint = e
Replied == reply.state = "text"
ClientError == response.status \in 400..499
IsSuccess == response.kind \in {"TransliterationResponse", "NERResponse"}
Contains(hay, needle) ==
    \E i \in 0..(Len(hay) - Len(needle)) : SubSeq(hay, i + 1, i + Len(needle)) = needle

FenceIdx(s) == {i \in 1..Len(s) : s[i] = FENCE}
Min(S) == CHOOSE x \in S : \A y \in S : x <= y
\* the text between fences i and j, without a leading json tag
BlockBody(s, i, j) == LET b == SubSeq(s, i + 1, j - 1)
                      IN IF b # <<>> /\ b[1] = TAG THEN Tail(b) ELSE b
\* pairs of fences with no fence between them
Blocks(s) == {p \in FenceIdx(s) \X FenceIdx(s) :
                 p[1] < p[2] /\ \A k \in FenceIdx(s) : ~(p[1] < k /\ k < p[2])}
HasBlock(s) == Cardinality(FenceIdx(s)) >= 2
FirstBlockBody(s) == LET open == Min(FenceIdx(s))
                         close == Min(FenceIdx(s) \ {open})
                     IN BlockBody(s, open, close)
WrapsValidJson(s) == \E p \in Blocks(s) : JsonLoads(BlockBody(s, p[1], p[2])).ok
Trimmed == Strip(reply.text)

\* C1 (as stated): every request to transliterate_text with non-empty text ends
\* with a response whose original_text is the submitted text, whatever the
\* oracle does.
C1_Original ==
    (Done("text") /\ text # <<>>)
        => (response.kind = "TransliterationResponse" /\ response.original_text = text)

\* C1 (amended): every request to transliterate_text with non-empty text for
\* which the oracle returns a reply ends with a transliteration response whose
\* original_text is the submitted text.
C1_Amended ==
    (Done("text") /\ text # <<>> /\ Replied)
        => (response.kind = "TransliterationResponse" /\ response.original_text = text)

C1_Witness ==
    Done("text") /\ text = <<WS>> /\ Replied /\ response.original_text = <<WS>>

\* C2: a request to transliterate_text with empty text ends in an HTTP 4xx
\* outcome with an explanatory message, and the oracle is not invoked.
C2_Claim ==
    (Done("text") /\ text = <<>>)
        => (ClientError /\ response.error # <<>> /\ oracleCalls = 0)

\* C3: on both file endpoints an upload whose content type is not the document
\* type ends in a client error, the upload body unread and the oracle not
\* invoked.
C3_Claim ==
    (pc = "done" /\ endpoint \in {"file", "ner"} /\ content_type # DOCX)
        => (ClientError /\ bodyReads = 0 /\ oracleCalls = 0)

\* C4 (as stated): in /ner, whenever the trimmed reply is valid JSON the
\* response is a success whose entities are the value parsed from the reply.
C4_Original ==
    (Done("ner") /\ Replied /\ JsonLoads(Trimmed).ok)
        => (response.kind = "NERResponse" /\ response.entities = JsonLoads(Trimmed).value)

\* C4 (amended): in /ner, whenever the trimmed reply is valid JSON whose value
\* is an object, the response is a success whose entities are that object,
\* unchanged.
C4_Amended ==
    (Done("ner") /\ Replied /\ JsonLoads(Trimmed).ok /\ JsonLoads(Trimmed).value.type = "dict")
        => (response.kind = "NERResponse" /\ response.entities = JsonLoads(Trimmed).value)

C4_Witness ==
    Done("ner") /\ Replied /\ reply.text = <<WS, OBJ, WS>> /\ response.kind = "NERResponse"

\* C5 (as stated): in /ner, whenever the reply is not itself JSON but wraps
\* valid JSON in a fenced block, with or without the json tag, the inner JSON
\* is returned as the entities of a success response.
C5_Original ==
    (Done("ner") /\ Replied /\ ~JsonLoads(Trimmed).ok /\ WrapsValidJson(Trimmed))
        => /\ response.kind = "NERResponse"
           /\ \E p \in Blocks(Trimmed) :
                 /\ JsonLoads(BlockBody(Trimmed, p[1], p[2])).ok
                 /\ response.entities = JsonLoads(BlockBody(Trimmed, p[1], p[2])).value

\* C5 (amended): in /ner, whenever the reply is not itself JSON and its first
\* fenced block, with or without the json tag, holds a JSON object, that
\* object is returned as the entities of a success response.
C5_Amended ==
    (/\ Done("ner") /\ Replied /\ ~JsonLoads(Trimmed).ok /\ HasBlock(Trimmed)
     /\ JsonLoads(FirstBlockBody(Trimmed)).ok
     /\ JsonLoads(FirstBlockBody(Trimmed)).value.type = "dict")
        => /\ response.kind = "NERResponse"
           /\ response.entities = JsonLoads(FirstBlockBody(Trimmed)).value

C5_Witness ==
    /\ Done("ner") /\ Replied
    /\ reply.text = <<FENCE, TAG, WS, OBJ, WS, FENCE>>
    /\ response.kind = "NERResponse"
    /\ response.entities.type = "dict"

\* C6: in /ner, whenever the reply is neither valid JSON nor wraps valid JSON
\* in a fenced block, the request ends in a client error whose message
\* includes the raw reply text, never in a success.
C6_Claim ==
    (Done("ner") /\ Replied /\ ~JsonLoads(Trimmed).ok /\ ~WrapsValidJson(Trimmed))
        => (ClientError /\ Contains(response.error, reply.text) /\ ~IsSuccess)

\* C7: a transliterate_file request with the document content type, a
\* readable document and a replying oracle ends in a success response with
\* original_text the paragraphs joined by newlines and transliterated_text the
\* trimmed reply, the prompt built from the extracted text.
C7_Claim ==
    (Done("file") /\ content_type = DOCX /\ doc.ok /\ reply.state # "failed")
        => /\ response.kind = "TransliterationResponse"
           /\ response.original_text = JoinNL(doc.paragraphs)
           /\ response.transliterated_text = Trimmed
           /\ prompt.text = JoinNL(doc.paragraphs)

\* C8: every finished request ends in a success response or an error payload;
\* when the handler body raised, the error payload carries the exception's
\* message and nothing propagates out of the handler.
C8_Theorem ==
    pc = "done"
        => /\ response.kind \in {"TransliterationResponse", "NERResponse", "ErrorResponse"}
           /\ (exc.type # "none"
                  => response.kind = "ErrorResponse" /\ response.error = Str(exc))
           /\ (exc.type = "none" => IsSuccess)

C8_Witness ==
    /\ pc = "done" /\ exc.type = "HTTPException"
    /\ response.kind = "ErrorResponse" /\ response.error = Str(exc)

\* C9: within one request the oracle is invoked at most once; once the oracle
\* has failed or replied the request is over.
C9_Theorem ==
    /\ oracleCalls <= 1
    /\ (reply.state # "none" => pc = "done" /\ oracleCalls = 1)

C9_Witness ==
    /\ pc = "done" /\ reply.state = "failed" /\ oracleCalls = 1
    /\ response.kind = "ErrorResponse"

\* C10: in /ner, when the reply is not itself JSON and the content of its
\* first fenced block does not parse, the request fails with the
\* unparseable-reply error, whatever later fenced blocks contain.
C10_Theorem ==
    (/\ Done("ner") /\ Replied /\ ~JsonLoads(Trimmed).ok /\ HasBlock(Trimmed)
     /\ ~JsonLoads(FirstBlockBody(Trimmed)).ok)
        => /\ response.kind = "ErrorResponse"
           /\ response.error =
                <<"400", ": ", "Could not extract json for NER entities : ">> \o Trimmed

C10_Witness ==
    /\ Done("ner") /\ Replied
    /\ reply.text = <<FENCE, TXT, FENCE, FENCE, OBJ, FENCE>>
    /\ response.kind = "ErrorResponse"
====
